---- MODULE Spec2Model ----
(***************************************************************************)
(* The confidential-compute ledger of apps/ledger/service/src/ledger.rs:   *)
(* LedgerService (current_time, per_key_ledgers) and its four operations   *)
(* create_key, delete_key, authorize_access and revoke_access.             *)
(*                                                                         *)
(* Durations are counted in ticks: one second is NanosPerSec ticks, so a   *)
(* core::time::Duration (secs, nanos) is the number secs*NanosPerSec+nanos *)
(* and Duration::new carries nanos >= NanosPerSec into the seconds.  The   *)
(* integer widths are scaled down: I64Max stands for i64::MAX, I32Max for  *)
(* i32::MAX, U64Max for u64::MAX and 0..MaxKeyId for the u32 key ids.      *)
(***************************************************************************)
EXTENDS Integers, Sequences, FiniteSets, TLC

VARIABLES
  current_time,     \* LedgerService.current_time, in ticks
  per_key_ledgers,  \* LedgerService.per_key_ledgers: key id -> PerKeyLedger
  last,             \* the last call: its request, status code and response
  audit,            \* history, per stored key: debits per transform, revoked blobs
  issued,           \* history: key ids returned by a successful CreateKey
  retired,          \* history: key ids once removed by DeleteKey or by eviction
  revoked_hist      \* history: <<key id, blob id>> of every successful RevokeAccess

vars == <<current_time, per_key_ledgers, last, audit, issued, retired, revoked_hist>>

-----------------------------------------------------------------------------
(* Widths and bounds *)

NanosPerSec == 2
I64Max == 3
MaxKeyId == 1
MaxDebits == 3

I32Max == 2 * NanosPerSec + 1
U64Max == 2 * I64Max + 1
KeyIds == 0 .. MaxKeyId

-----------------------------------------------------------------------------
(* Wire values *)

\* Option<prost_types::Timestamp> and Option<prost_types::Duration>
NoStamp == [some |-> FALSE, seconds |-> 0, nanos |-> 0]
Stamp(s, n) == [some |-> TRUE, seconds |-> s, nanos |-> n]

\* Rust integer division and remainder truncate toward zero.
TruncDiv(a, b) == IF a >= 0 THEN a \div b ELSE -((-a) \div b)
TruncRem(a, b) == a - b * TruncDiv(a, b)

Duration_new(secs, nanos) == secs * NanosPerSec + nanos
as_secs(d) == d \div NanosPerSec
\* Faulty variant of subsec_nanos: the fraction of a second is dropped.
subsec_nanos_dropped(d) == 0

subsec_nanos(d) == d % NanosPerSec

ParseErr == -1

\* Faulty variants of parse_timestamp: an absent timestamp is an error; the
\* sign of the fields is not looked at.
parse_timestamp_requires_some(ts) ==
  IF ~ts.some THEN ParseErr
  ELSE IF ts.seconds < 0 \/ ts.nanos < 0 THEN ParseErr
  ELSE Duration_new(ts.seconds, ts.nanos)

parse_timestamp_unsigned(ts) ==
  IF ~ts.some THEN 0
  ELSE Duration_new(IF ts.seconds < 0 THEN -ts.seconds ELSE ts.seconds,
                    IF ts.nanos < 0 THEN -ts.nanos ELSE ts.nanos)

\* -1 stands for Err(TryFromIntError): a negative seconds or nanos field.
parse_timestamp(ts) ==
  IF ~ts.some THEN 0
  ELSE IF ts.seconds < 0 \/ ts.nanos < 0 THEN ParseErr
  ELSE Duration_new(ts.seconds, ts.nanos)

\* prost_types::Duration::normalize, as <Duration>::try_from applies it.
normalize(d) ==
  LET carried ==
        IF d.nanos <= -NanosPerSec \/ d.nanos >= NanosPerSec
        THEN LET s == d.seconds + TruncDiv(d.nanos, NanosPerSec)
             IN IF s >= -(I64Max + 1) /\ s <= I64Max
                THEN [seconds |-> s, nanos |-> TruncRem(d.nanos, NanosPerSec)]
                ELSE IF d.nanos < 0
                     THEN [seconds |-> -(I64Max + 1), nanos |-> -(NanosPerSec - 1)]
                     ELSE [seconds |-> I64Max, nanos |-> NanosPerSec - 1]
        ELSE [seconds |-> d.seconds, nanos |-> d.nanos]
  IN IF carried.seconds < 0 /\ carried.nanos > 0
     THEN [seconds |-> carried.seconds + 1, nanos |-> carried.nanos - NanosPerSec]
     ELSE IF carried.seconds > 0 /\ carried.nanos < 0
          THEN [seconds |-> carried.seconds - 1, nanos |-> carried.nanos + NanosPerSec]
          ELSE carried

\* -1 stands for Err(DurationError): the normalized duration is negative.
parse_duration(d) ==
  IF ~d.some THEN 0
  ELSE LET n == normalize(d)
       IN IF n.seconds >= 0 /\ n.nanos >= 0
          THEN Duration_new(n.seconds, n.nanos)
          ELSE ParseErr

\* Sha256::digest: an injective tagging of the bytes (no collisions).
Sha256(bytes) == <<"sha256", bytes>>

\* A transform: its ApplicationMatcher tag (NoMatcher: none) and its AccessBudget.
NoMatcher == "-"
Times(tag, n) == [tag |-> tag, limited |-> TRUE, times |-> n]
Unlimited(tag) == [tag |-> tag, limited |-> FALSE, times |-> 0]

\* DataAccessPolicy::decode over the policy byte strings of the model; any
\* other byte string is Err(DecodeError).
PolicyBytes ==
  {"pol_any1", "pol_a2", "pol_a2x", "pol_two", "pol_a_unl", "pol_a0", "pol_empty",
   "pol_ab"}
DataAccessPolicy_decodes(bytes) == bytes \in PolicyBytes
DataAccessPolicy_decode(bytes) ==
  CASE bytes = "pol_any1"  -> <<Times(NoMatcher, 1)>>
    [] bytes = "pol_a2"    -> <<Times("a", 2)>>
    [] bytes = "pol_a2x"   -> <<Times("a", 2)>>
    [] bytes = "pol_two"   -> <<Times(NoMatcher, 1), Times("a", 1)>>
    [] bytes = "pol_a_unl" -> <<Unlimited("a")>>
    [] bytes = "pol_a0"    -> <<Times("a", 0)>>
    [] bytes = "pol_empty" -> <<>>
    [] bytes = "pol_ab"    -> <<Times("a", 1), Times("b", 2)>>
    [] OTHER               -> <<>>

\* BlobHeader::encode_to_vec / BlobHeader::decode: the header bytes are the
\* sequence of the four fields; anything else does not decode.
BlobHeader_encode(h) ==
  <<h.blob_id, h.public_key_id, h.access_policy_sha256, h.access_policy_node_id>>
BadHeader == <<"invalid">>
BlobHeader_decodes(bytes) == Len(bytes) = 4
BlobHeader_decode(bytes) ==
  [blob_id |-> bytes[1], public_key_id |-> bytes[2],
   access_policy_sha256 |-> bytes[3], access_policy_node_id |-> bytes[4]]

-----------------------------------------------------------------------------
(* budget::BudgetTracker *)

BudgetTracker_new == [budgets |-> <<>>, revoked |-> {}]

matches(transform, app) ==
  transform.tag = NoMatcher \/ transform.tag = app.tag

\* Faulty variant of has_budget: a transform that declares no AccessBudget is
\* given the budget of its declared count, which is none.
has_budget_needs_count(tracker, blob_id, policy, policy_hash, i) ==
  IF <<blob_id, policy_hash, i>> \in DOMAIN tracker.budgets
  THEN tracker.budgets[<<blob_id, policy_hash, i>>] > 0
  ELSE policy[i].times > 0

has_budget(tracker, blob_id, policy, policy_hash, i) ==
  \/ ~policy[i].limited
  \/ IF <<blob_id, policy_hash, i>> \in DOMAIN tracker.budgets
     THEN tracker.budgets[<<blob_id, policy_hash, i>>] > 0
     ELSE policy[i].times > 0

SetMin(S) == CHOOSE x \in S : \A y \in S : x <= y

\* The result: [code, index]; index is 1-based in policy order.
\* Faulty variant of find_matching_transform: node_id is an entry point, and
\* only the transforms after it are candidates.
find_matching_transform_from_node(tracker, blob_id, node_id, policy, policy_hash, app) ==
  IF blob_id \in tracker.revoked
  THEN [code |-> "ResourceExhausted", index |-> 0]
  ELSE LET matching == {i \in 1 .. Len(policy) :
                          i > node_id /\ matches(policy[i], app)}
           funded == {i \in matching :
                        has_budget(tracker, blob_id, policy, policy_hash, i)}
       IN IF funded # {} THEN [code |-> "Ok", index |-> SetMin(funded)]
          ELSE IF matching = {} THEN [code |-> "FailedPrecondition", index |-> 0]
          ELSE [code |-> "ResourceExhausted", index |-> 0]

find_matching_transform(tracker, blob_id, node_id, policy, policy_hash, app) ==
  IF blob_id \in tracker.revoked
  THEN [code |-> "ResourceExhausted", index |-> 0]
  ELSE LET matching == {i \in 1 .. Len(policy) : matches(policy[i], app)}
           funded == {i \in matching :
                        has_budget(tracker, blob_id, policy, policy_hash, i)}
       IN IF funded # {} THEN [code |-> "Ok", index |-> SetMin(funded)]
          ELSE IF matching = {} THEN [code |-> "FailedPrecondition", index |-> 0]
          ELSE [code |-> "ResourceExhausted", index |-> 0]

\* The result: [code, tracker].
update_budget(tracker, blob_id, i, policy, policy_hash) ==
  LET key == <<blob_id, policy_hash, i>>
      residual == IF key \in DOMAIN tracker.budgets
                  THEN tracker.budgets[key] ELSE policy[i].times
  IN IF ~policy[i].limited THEN [code |-> "Ok", tracker |-> tracker]
     ELSE IF residual = 0 THEN [code |-> "Internal", tracker |-> tracker]
     ELSE [code |-> "Ok",
           tracker |-> [tracker EXCEPT !.budgets =
              [k \in DOMAIN tracker.budgets \cup {key} |->
                 IF k = key THEN residual - 1 ELSE tracker.budgets[k]]]]

\* Faulty variant of consume_budget: the debits recorded for the tracker are
\* dropped with the revocation.
consume_budget_forgets_debits(tracker, blob_id) ==
  [budgets |-> <<>>, revoked |-> tracker.revoked \cup {blob_id}]

consume_budget(tracker, blob_id) ==
  [tracker EXCEPT !.revoked = tracker.revoked \cup {blob_id}]

-----------------------------------------------------------------------------
(* attestation::verify_attestation and cfc_crypto::rewrap_symmetric_key *)

\* The verifier rejects the evidence "forged"; otherwise the Application
\* carries the recipient's tag.
verify_attestation(recipient_public_key, recipient_attestation, recipient_tag) ==
  IF recipient_attestation = "forged"
  THEN [ok |-> FALSE, app |-> [tag |-> recipient_tag]]
  ELSE [ok |-> TRUE, app |-> [tag |-> recipient_tag]]

\* The re-wrap succeeds iff the symmetric key was sealed with the request's
\* blob_header as associated data (to the key the header names).
rewrap_symmetric_key(request) == request.sealed_aad = "blob_header"

-----------------------------------------------------------------------------
(* LedgerService *)

\* Faulty variant of the retain of line 79: a key expiring exactly now is kept.
Retain_keeps_boundary(ledgers, now) ==
  [k \in {j \in DOMAIN ledgers : ledgers[j].expiration >= now} |-> ledgers[k]]

\* Faulty variant of the retain of line 79: the keys kept lose their budget
\* state.
Retain_forgets_budgets(ledgers, now) ==
  [k \in {j \in DOMAIN ledgers : ledgers[j].expiration > now} |->
     [ledgers[k] EXCEPT !.budget_tracker = BudgetTracker_new]]

Retain(ledgers, now) ==
  [k \in {j \in DOMAIN ledgers : ledgers[j].expiration > now} |-> ledgers[k]]

\* Faulty variants of update_current_time: the clock assigned before the
\* monotonicity check; no monotonicity check; no eviction.
update_current_time_assigns_first(ct, ledgers, now) ==
  LET parsed == parse_timestamp(now)
  IN IF parsed = ParseErr
     THEN [ok |-> FALSE, current_time |-> ct, per_key_ledgers |-> ledgers]
     ELSE IF parsed < ct
     THEN [ok |-> FALSE, current_time |-> parsed, per_key_ledgers |-> ledgers]
     ELSE [ok |-> TRUE, current_time |-> parsed,
           per_key_ledgers |-> Retain(ledgers, parsed)]

update_current_time_unchecked(ct, ledgers, now) ==
  LET parsed == parse_timestamp(now)
  IN IF parsed = ParseErr
     THEN [ok |-> FALSE, current_time |-> ct, per_key_ledgers |-> ledgers]
     ELSE [ok |-> TRUE, current_time |-> parsed,
           per_key_ledgers |-> Retain(ledgers, parsed)]

update_current_time_keeps_expired(ct, ledgers, now) ==
  LET parsed == parse_timestamp(now)
  IN IF parsed = ParseErr
     THEN [ok |-> FALSE, current_time |-> ct, per_key_ledgers |-> ledgers]
     ELSE IF parsed < ct
     THEN [ok |-> FALSE, current_time |-> ct, per_key_ledgers |-> ledgers]
     ELSE [ok |-> TRUE, current_time |-> parsed, per_key_ledgers |-> ledgers]

\* The result: [ok, current_time, per_key_ledgers].
update_current_time(ct, ledgers, now) ==
  LET parsed == parse_timestamp(now)
  IN IF parsed = ParseErr
     THEN [ok |-> FALSE, current_time |-> ct, per_key_ledgers |-> ledgers]
     ELSE IF parsed < ct
     THEN [ok |-> FALSE, current_time |-> ct, per_key_ledgers |-> ledgers]
     ELSE [ok |-> TRUE, current_time |-> parsed,
           per_key_ledgers |-> Retain(ledgers, parsed)]

Insert(ledgers, key_id, ledger) ==
  [k \in DOMAIN ledgers \cup {key_id} |-> IF k = key_id THEN ledger ELSE ledgers[k]]

\* Faulty variant of the remove of line 172: the map is cleared.
Remove_everything(ledgers, key_id) == <<>>

Remove(ledgers, key_id) ==
  [k \in DOMAIN ledgers \ {key_id} |-> ledgers[k]]

NoDetails == [public_key_id |-> 0, issued |-> NoStamp, expiration |-> NoStamp]

Outcome(ct, ledgers, code, step) ==
  [current_time |-> ct, per_key_ledgers |-> ledgers, code |-> code, step |-> step,
   key_id |-> -1, index |-> 0, details |-> NoDetails]

\* Faulty variant of contains_key: the drawn id is never looked up.
contains_key_never(ledgers, key_id) == FALSE

contains_key(ledgers, key_id) == key_id \in DOMAIN ledgers

\* `drawn` is the last id OsRng.next_u32() returned in the loop of lines
\* 126-129.  "Redraw": the id is a key of the map, so the loop draws again and
\* `drawn` was not the last draw.  "Diverges": every id is a key of the map,
\* and the loop never ends.  "Panics": an unwrap, or the Duration addition,
\* overflows.
create_key(ct, ledgers, request, drawn) ==
  LET clock == update_current_time(ct, ledgers, request.now)
      ttl == parse_duration(request.ttl)
      expiration == clock.current_time + ttl
      stored == Insert(clock.per_key_ledgers, drawn,
                       [expiration |-> expiration,
                        budget_tracker |-> BudgetTracker_new])
  IN IF ~clock.ok
     THEN Outcome(clock.current_time, clock.per_key_ledgers,
                  "InvalidArgument", "clock")
     ELSE IF ttl = ParseErr
     THEN Outcome(clock.current_time, clock.per_key_ledgers, "InvalidArgument", "ttl")
     ELSE IF as_secs(expiration) > U64Max
     THEN Outcome(clock.current_time, clock.per_key_ledgers, "Panics", "add")
     ELSE IF DOMAIN clock.per_key_ledgers = KeyIds
     THEN Outcome(clock.current_time, clock.per_key_ledgers, "Diverges", "key_id")
     ELSE IF contains_key(clock.per_key_ledgers, drawn)
     THEN Outcome(clock.current_time, clock.per_key_ledgers, "Redraw", "key_id")
     ELSE IF as_secs(clock.current_time) > I64Max
     THEN [Outcome(clock.current_time, stored, "Panics", "issued")
             EXCEPT !.key_id = drawn]
     ELSE IF as_secs(expiration) > I64Max
     THEN [Outcome(clock.current_time, stored, "InvalidArgument", "overflow")
             EXCEPT !.key_id = drawn]
     ELSE [Outcome(clock.current_time, stored, "Ok", "done")
             EXCEPT !.key_id = drawn,
                    !.details =
                      [public_key_id |-> drawn,
                       issued |-> Stamp(as_secs(clock.current_time),
                                        subsec_nanos(clock.current_time)),
                       expiration |-> Stamp(as_secs(expiration),
                                            subsec_nanos(expiration))]]

\* Faulty variant of delete_key: the entry is found but not removed.
delete_key_keeps_entry(ct, ledgers, request) ==
  IF request.public_key_id \in DOMAIN ledgers
  THEN Outcome(ct, ledgers, "Ok", "done")
  ELSE Outcome(ct, ledgers, "NotFound", "key")

delete_key(ct, ledgers, request) ==
  IF request.public_key_id \in DOMAIN ledgers
  THEN Outcome(ct, Remove(ledgers, request.public_key_id), "Ok", "done")
  ELSE Outcome(ct, ledgers, "NotFound", "key")

\* Faulty variants of lines 250-283: the budget update left out; the budget
\* updated before the re-wrap.
rewrap_and_commit_forgets_budget(now, kept, request, header, access_policy, index) ==
  IF ~rewrap_symmetric_key(request)
  THEN [Outcome(now, kept, "InvalidArgument", "rewrap") EXCEPT !.index = index]
  ELSE [Outcome(now, kept, "Ok", "done")
          EXCEPT !.index = index, !.key_id = header.public_key_id]

rewrap_and_commit_debits_first(now, kept, request, header, access_policy, index) ==
  LET per_key_ledger == kept[header.public_key_id]
      updated == update_budget(per_key_ledger.budget_tracker, header.blob_id,
                   index, access_policy, header.access_policy_sha256)
      debited == [kept EXCEPT ![header.public_key_id].budget_tracker =
                    updated.tracker]
  IN IF updated.code # "Ok"
     THEN [Outcome(now, kept, updated.code, "budget") EXCEPT !.index = index]
     ELSE IF ~rewrap_symmetric_key(request)
     THEN [Outcome(now, debited, "InvalidArgument", "rewrap") EXCEPT !.index = index]
     ELSE [Outcome(now, debited, "Ok", "done")
             EXCEPT !.index = index, !.key_id = header.public_key_id]

\* Faulty variants of lines 250-283: the debit goes to the first transform of
\* the policy whatever transform was selected; the debit is recorded without
\* the policy hash of the header.
rewrap_and_commit_debits_head(now, kept, request, header, access_policy, index) ==
  LET per_key_ledger == kept[header.public_key_id]
      updated == update_budget(per_key_ledger.budget_tracker, header.blob_id,
                   1, access_policy, header.access_policy_sha256)
  IN IF ~rewrap_symmetric_key(request)
     THEN [Outcome(now, kept, "InvalidArgument", "rewrap") EXCEPT !.index = index]
     ELSE IF updated.code # "Ok"
     THEN [Outcome(now, kept, updated.code, "budget") EXCEPT !.index = index]
     ELSE [Outcome(now,
                   [kept EXCEPT ![header.public_key_id].budget_tracker =
                      updated.tracker],
                   "Ok", "done")
             EXCEPT !.index = index, !.key_id = header.public_key_id]

rewrap_and_commit_drops_hash(now, kept, request, header, access_policy, index) ==
  LET per_key_ledger == kept[header.public_key_id]
      updated == update_budget(per_key_ledger.budget_tracker, header.blob_id,
                   index, access_policy, Sha256(""))
  IN IF ~rewrap_symmetric_key(request)
     THEN [Outcome(now, kept, "InvalidArgument", "rewrap") EXCEPT !.index = index]
     ELSE IF updated.code # "Ok"
     THEN [Outcome(now, kept, updated.code, "budget") EXCEPT !.index = index]
     ELSE [Outcome(now,
                   [kept EXCEPT ![header.public_key_id].budget_tracker =
                      updated.tracker],
                   "Ok", "done")
             EXCEPT !.index = index, !.key_id = header.public_key_id]

\* Faulty variant of lines 250-283: the access is debited under every key.
rewrap_and_commit_debits_every_key(now, kept, request, header, access_policy, index) ==
  LET updated(k) == update_budget(kept[k].budget_tracker, header.blob_id,
                      index, access_policy, header.access_policy_sha256)
  IN IF ~rewrap_symmetric_key(request)
     THEN [Outcome(now, kept, "InvalidArgument", "rewrap") EXCEPT !.index = index]
     ELSE IF updated(header.public_key_id).code # "Ok"
     THEN [Outcome(now, kept, updated(header.public_key_id).code, "budget")
             EXCEPT !.index = index]
     ELSE [Outcome(now,
                   [k \in DOMAIN kept |->
                      [kept[k] EXCEPT !.budget_tracker = updated(k).tracker]],
                   "Ok", "done")
             EXCEPT !.index = index, !.key_id = header.public_key_id]

\* Lines 250-283: the re-wrap, then the budget update, then the response.
rewrap_and_commit(now, kept, request, header, access_policy, index) ==
  LET per_key_ledger == kept[header.public_key_id]
      updated == update_budget(per_key_ledger.budget_tracker, header.blob_id,
                   index, access_policy, header.access_policy_sha256)
  IN IF ~rewrap_symmetric_key(request)
     THEN [Outcome(now, kept, "InvalidArgument", "rewrap") EXCEPT !.index = index]
     ELSE IF updated.code # "Ok"
     THEN [Outcome(now, kept, updated.code, "budget") EXCEPT !.index = index]
     ELSE [Outcome(now,
                   [kept EXCEPT ![header.public_key_id].budget_tracker =
                      updated.tracker],
                   "Ok", "done")
             EXCEPT !.index = index, !.key_id = header.public_key_id]

\* Faulty variant of the check of lines 216-221: any digest is accepted.
policy_committed_unchecked(request, header) == TRUE

\* Lines 216-221: the header commits to the policy bytes by their SHA-256.
policy_committed(request, header) ==
  Sha256(request.access_policy) = header.access_policy_sha256

\* Faulty variants of authorize_access: the key looked up before the policy
\* commitment is checked; the tracker's refusal reported as ResourceExhausted
\* whatever its code.
authorize_access_looks_up_first(ct, ledgers, request) ==
  LET clock == update_current_time(ct, ledgers, request.now)
      now == clock.current_time
      kept == clock.per_key_ledgers
      attested == verify_attestation(request.recipient_public_key,
                                     request.recipient_attestation,
                                     request.recipient_tag)
      header == BlobHeader_decode(request.blob_header)
      access_policy == DataAccessPolicy_decode(request.access_policy)
      found == find_matching_transform(
                 kept[header.public_key_id].budget_tracker,
                 header.blob_id, header.access_policy_node_id, access_policy,
                 header.access_policy_sha256, attested.app)
  IN IF ~clock.ok
     THEN Outcome(clock.current_time, clock.per_key_ledgers,
                  "InvalidArgument", "clock")
     ELSE IF ~attested.ok
     THEN Outcome(now, kept, "InvalidArgument", "attestation")
     ELSE IF ~BlobHeader_decodes(request.blob_header)
     THEN Outcome(now, kept, "InvalidArgument", "header")
     ELSE IF header.public_key_id \notin DOMAIN kept
     THEN Outcome(now, kept, "NotFound", "key")
     ELSE IF ~policy_committed(request, header)
     THEN Outcome(now, kept, "InvalidArgument", "policy_hash")
     ELSE IF ~DataAccessPolicy_decodes(request.access_policy)
     THEN Outcome(now, kept, "InvalidArgument", "policy")
     ELSE IF found.code # "Ok"
     THEN Outcome(now, kept, found.code, "transform")
     ELSE rewrap_and_commit(now, kept, request, header, access_policy, found.index)

authorize_access_hides_refusal(ct, ledgers, request) ==
  LET clock == update_current_time(ct, ledgers, request.now)
      now == clock.current_time
      kept == clock.per_key_ledgers
      attested == verify_attestation(request.recipient_public_key,
                                     request.recipient_attestation,
                                     request.recipient_tag)
      header == BlobHeader_decode(request.blob_header)
      access_policy == DataAccessPolicy_decode(request.access_policy)
      found == find_matching_transform(
                 kept[header.public_key_id].budget_tracker,
                 header.blob_id, header.access_policy_node_id, access_policy,
                 header.access_policy_sha256, attested.app)
  IN IF ~clock.ok
     THEN Outcome(clock.current_time, clock.per_key_ledgers,
                  "InvalidArgument", "clock")
     ELSE IF ~attested.ok
     THEN Outcome(now, kept, "InvalidArgument", "attestation")
     ELSE IF ~BlobHeader_decodes(request.blob_header)
     THEN Outcome(now, kept, "InvalidArgument", "header")
     ELSE IF ~policy_committed(request, header)
     THEN Outcome(now, kept, "InvalidArgument", "policy_hash")
     ELSE IF ~DataAccessPolicy_decodes(request.access_policy)
     THEN Outcome(now, kept, "InvalidArgument", "policy")
     ELSE IF header.public_key_id \notin DOMAIN kept
     THEN Outcome(now, kept, "NotFound", "key")
     ELSE IF found.code # "Ok"
     THEN Outcome(now, kept, "ResourceExhausted", "transform")
     ELSE rewrap_and_commit(now, kept, request, header, access_policy, found.index)

authorize_access(ct, ledgers, request) ==
  LET clock == update_current_time(ct, ledgers, request.now)
      now == clock.current_time
      kept == clock.per_key_ledgers
      attested == verify_attestation(request.recipient_public_key,
                                     request.recipient_attestation,
                                     request.recipient_tag)
      header == BlobHeader_decode(request.blob_header)
      access_policy == DataAccessPolicy_decode(request.access_policy)
      found == find_matching_transform(
                 kept[header.public_key_id].budget_tracker,
                 header.blob_id, header.access_policy_node_id, access_policy,
                 header.access_policy_sha256, attested.app)
  IN IF ~clock.ok
     THEN Outcome(clock.current_time, clock.per_key_ledgers,
                  "InvalidArgument", "clock")
     ELSE IF ~attested.ok
     THEN Outcome(now, kept, "InvalidArgument", "attestation")
     ELSE IF ~BlobHeader_decodes(request.blob_header)
     THEN Outcome(now, kept, "InvalidArgument", "header")
     ELSE IF ~policy_committed(request, header)
     THEN Outcome(now, kept, "InvalidArgument", "policy_hash")
     ELSE IF ~DataAccessPolicy_decodes(request.access_policy)
     THEN Outcome(now, kept, "InvalidArgument", "policy")
     ELSE IF header.public_key_id \notin DOMAIN kept
     THEN Outcome(now, kept, "NotFound", "key")
     ELSE IF found.code # "Ok"
     THEN Outcome(now, kept, found.code, "transform")
     ELSE rewrap_and_commit(now, kept, request, header, access_policy, found.index)

\* Faulty variant of revoke_access: the tracker is not told.
revoke_access_forgets_budget(ct, ledgers, request) ==
  IF request.public_key_id \in DOMAIN ledgers
  THEN Outcome(ct, ledgers, "Ok", "done")
  ELSE Outcome(ct, ledgers, "NotFound", "key")

\* Faulty variants of revoke_access: for a key that is not stored, the blob is
\* revoked under every stored key; for a stored key, the blob is revoked under
\* every stored key as well.
revoke_access_on_any_key(ct, ledgers, request) ==
  IF request.public_key_id \in DOMAIN ledgers
  THEN Outcome(ct,
               [ledgers EXCEPT ![request.public_key_id].budget_tracker =
                  consume_budget(ledgers[request.public_key_id].budget_tracker,
                                 request.blob_id)],
               "Ok", "done")
  ELSE Outcome(ct,
               [k \in DOMAIN ledgers |->
                  [ledgers[k] EXCEPT !.budget_tracker =
                     consume_budget(ledgers[k].budget_tracker, request.blob_id)]],
               "NotFound", "key")

revoke_access_under_every_key(ct, ledgers, request) ==
  IF request.public_key_id \in DOMAIN ledgers
  THEN Outcome(ct,
               [k \in DOMAIN ledgers |->
                  [ledgers[k] EXCEPT !.budget_tracker =
                     consume_budget(ledgers[k].budget_tracker, request.blob_id)]],
               "Ok", "done")
  ELSE Outcome(ct, ledgers, "NotFound", "key")

\* Faulty variant of revoke_access: a blob already revoked is refused.
revoke_access_refuses_repeat(ct, ledgers, request) ==
  IF request.public_key_id \notin DOMAIN ledgers
  THEN Outcome(ct, ledgers, "NotFound", "key")
  ELSE IF request.blob_id
            \in ledgers[request.public_key_id].budget_tracker.revoked
  THEN Outcome(ct, ledgers, "NotFound", "blob")
  ELSE Outcome(ct,
               [ledgers EXCEPT ![request.public_key_id].budget_tracker =
                  consume_budget(ledgers[request.public_key_id].budget_tracker,
                                 request.blob_id)],
               "Ok", "done")

\* Faulty variant of revoke_access: the keys the clock has reached are evicted.
revoke_access_evicts(ct, ledgers, request) ==
  LET kept == Retain(ledgers, ct)
  IN IF request.public_key_id \in DOMAIN kept
     THEN Outcome(ct,
                  [kept EXCEPT ![request.public_key_id].budget_tracker =
                     consume_budget(kept[request.public_key_id].budget_tracker,
                                    request.blob_id)],
                  "Ok", "done")
     ELSE Outcome(ct, kept, "NotFound", "key")

revoke_access(ct, ledgers, request) ==
  IF request.public_key_id \in DOMAIN ledgers
  THEN Outcome(ct,
               [ledgers EXCEPT ![request.public_key_id].budget_tracker =
                  consume_budget(ledgers[request.public_key_id].budget_tracker,
                                 request.blob_id)],
               "Ok", "done")
  ELSE Outcome(ct, ledgers, "NotFound", "key")

-----------------------------------------------------------------------------
(* The service as a state machine: one action per RPC *)

NoRequest == [now |-> NoStamp]

Init ==
  /\ current_time = 0
  /\ per_key_ledgers = <<>>
  /\ last = [op |-> "Init", request |-> NoRequest, code |-> "Ok", step |-> "done",
             key_id |-> -1, index |-> 0, details |-> NoDetails, gone |-> <<>>]
  /\ audit = <<>>
  /\ issued = {}
  /\ retired = {}
  /\ revoked_hist = {}

\* A panic or a key-id loop that never ends stops the single-threaded service.
Running == last.code \notin {"Panics", "Diverges"}

Called(op, request, out, gone) ==
  [op |-> op, request |-> request, code |-> out.code, step |-> out.step,
   key_id |-> out.key_id, index |-> out.index, details |-> out.details,
   gone |-> gone]

NoAudit == [debits |-> <<>>, revoked |-> {}]

\* Keys whose expiration the request's `now` has reached.
Expired(ledgers, now) ==
  IF parse_timestamp(now) = ParseErr THEN {}
  ELSE {k \in DOMAIN ledgers : parse_timestamp(now) >= ledgers[k].expiration}

\* The history of the keys in `live`, those in `fresh` being stored anew.
Carry(live, fresh) ==
  [k \in live |-> IF k \in fresh \/ k \notin DOMAIN audit THEN NoAudit ELSE audit[k]]

\* The expirations of the keys the request's `now` has reached.
Evicted(ledgers, now) ==
  [k \in Expired(ledgers, now) |-> ledgers[k].expiration]

Debits(a, entry) == IF entry \in DOMAIN a.debits THEN a.debits[entry] ELSE 0

Debit(a, entry) ==
  [a EXCEPT !.debits =
     [e \in DOMAIN a.debits \cup {entry} |->
        IF e # entry THEN a.debits[e]
        ELSE IF Debits(a, e) < MaxDebits THEN Debits(a, e) + 1 ELSE MaxDebits]]

CreateKey(request, drawn) ==
  LET out == create_key(current_time, per_key_ledgers, request, drawn)
      gone == Expired(per_key_ledgers, request.now)
      fresh == IF out.key_id = -1 THEN {} ELSE {out.key_id}
  IN /\ Running
     /\ out.code # "Redraw"
     /\ current_time' = out.current_time
     /\ per_key_ledgers' = out.per_key_ledgers
     /\ last' = Called("CreateKey", request, out,
                       Evicted(per_key_ledgers, request.now))
     /\ audit' = Carry((DOMAIN audit \ gone) \cup fresh, fresh)
     /\ issued' = IF out.code = "Ok" THEN issued \cup {out.key_id} ELSE issued
     /\ retired' = retired \cup gone
     /\ UNCHANGED revoked_hist

DeleteKey(request) ==
  LET out == delete_key(current_time, per_key_ledgers, request)
      gone == IF out.code = "Ok" THEN {request.public_key_id} ELSE {}
  IN /\ Running
     /\ current_time' = out.current_time
     /\ per_key_ledgers' = out.per_key_ledgers
     /\ last' = Called("DeleteKey", request, out, <<>>)
     /\ audit' = Carry(DOMAIN audit \ gone, {})
     /\ retired' = retired \cup gone
     /\ UNCHANGED <<issued, revoked_hist>>

AuthorizeAccess(request) ==
  LET out == authorize_access(current_time, per_key_ledgers, request)
      gone == Expired(per_key_ledgers, request.now)
      header == BlobHeader_decode(request.blob_header)
      carried == Carry(DOMAIN audit \ gone, {})
  IN /\ Running
     /\ current_time' = out.current_time
     /\ per_key_ledgers' = out.per_key_ledgers
     /\ last' = Called("AuthorizeAccess", request, out,
                       Evicted(per_key_ledgers, request.now))
     /\ audit' =
          IF out.code = "Ok" /\ header.public_key_id \in DOMAIN carried
          THEN [carried EXCEPT ![header.public_key_id] =
                  Debit(@, <<header.blob_id, header.access_policy_sha256, out.index>>)]
          ELSE carried
     /\ retired' = retired \cup gone
     /\ UNCHANGED <<issued, revoked_hist>>

RevokeAccess(request) ==
  LET out == revoke_access(current_time, per_key_ledgers, request)
      done == out.code = "Ok"
  IN /\ Running
     /\ current_time' = out.current_time
     /\ per_key_ledgers' = out.per_key_ledgers
     /\ last' = Called("RevokeAccess", request, out, <<>>)
     /\ audit' =
          IF done /\ request.public_key_id \in DOMAIN audit
          THEN [audit EXCEPT ![request.public_key_id].revoked =
                  @ \cup {request.blob_id}]
          ELSE audit
     /\ revoked_hist' =
          IF done THEN revoked_hist \cup {<<request.public_key_id, request.blob_id>>}
          ELSE revoked_hist
     /\ UNCHANGED <<issued, retired>>

\* The requests a specification draws from.
Headers(blobs, keys, digests, nodes) ==
  {BlobHeader_encode([blob_id |-> b, public_key_id |-> k,
                      access_policy_sha256 |-> d, access_policy_node_id |-> n]) :
     b \in blobs, k \in keys, d \in digests, n \in nodes}

AuthorizeRequests(nows, policies, headers, evidence, tags, sealed) ==
  [now : nows, access_policy : policies, blob_header : headers,
   recipient_public_key : {"recipient"}, recipient_attestation : evidence,
   recipient_tag : tags, sealed_aad : sealed]

NextOver(c) ==
  \/ \E request \in c.create, drawn \in c.draws : CreateKey(request, drawn)
  \/ \E request \in c.delete : DeleteKey(request)
  \/ \E request \in c.authorize : AuthorizeAccess(request)
  \/ \E request \in c.revoke : RevokeAccess(request)

\* Key lifecycle and the clock: both key ids, one blob, one policy.
Lifecycle ==
  LET nows == {NoStamp, Stamp(-1, 0), Stamp(1, 0)}
  IN [create |-> [now : nows, ttl : {NoStamp, Stamp(1, 0)}],
      draws |-> KeyIds,
      delete |-> [public_key_id : KeyIds],
      authorize |->
        AuthorizeRequests(nows, {"pol_any1"},
          Headers({"b1"}, KeyIds, {Sha256("pol_any1")}, {0}),
          {"genuine"}, {"a"}, {"blob_header"}),
      revoke |-> [public_key_id : KeyIds, blob_id : {"b1"}]]

Next == NextOver(Lifecycle)

Spec == Init /\ [][Next]_vars

\* Budgets: one key id drawn, one blob, three policies, two recipients.
Budgets ==
  LET policies == {"pol_a2", "pol_two", "pol_a_unl"}
  IN [create |-> [now : {NoStamp}, ttl : {NoStamp, Stamp(1, 0)}],
      draws |-> {0},
      delete |-> [public_key_id : {0}],
      authorize |->
        AuthorizeRequests({NoStamp}, policies,
          Headers({"b1"}, {0}, {Sha256(p) : p \in policies}, {0}),
          {"genuine"}, {"a", "b"}, {"blob_header", "other aad"}),
      revoke |-> [public_key_id : {0}, blob_id : {"b1"}]]

NextBudget == NextOver(Budgets)

SpecBudget == Init /\ [][NextBudget]_vars

\* Widths: timestamps and durations at the ends of their ranges.
Widths ==
  LET nows == {NoStamp, Stamp(1, 0), Stamp(1, -1), Stamp(0, I32Max),
               Stamp(I64Max, NanosPerSec)}
  IN [create |-> [now : nows,
                  ttl : {NoStamp, Stamp(1, 0), Stamp(-1, 0), Stamp(1, -1),
                         Stamp(I64Max, 0)}],
      draws |-> {0},
      delete |-> [public_key_id : {0}],
      authorize |->
        AuthorizeRequests({NoStamp, Stamp(-1, 0), Stamp(I64Max, NanosPerSec)},
          {"pol_any1"},
          Headers({"b1"}, {0}, {Sha256("pol_any1")}, {0}) \cup {BadHeader},
          {"genuine"}, {"a"}, {"blob_header"}),
      revoke |-> [public_key_id : {0}, blob_id : {"b1"}]]

NextWidth == NextOver(Widths)

SpecWidth == Init /\ [][NextWidth]_vars

\* Checks: requests failing one or several checks of authorize_access, on a
\* key that exists (0) and one that never does (1).
Checks ==
  LET policies == {"pol_a2", "pol_empty", "garbage"}
  IN [create |-> [now : {NoStamp, Stamp(1, 0)}, ttl : {Stamp(1, 0)}],
      draws |-> {0},
      delete |-> [public_key_id : {0}],
      authorize |->
        AuthorizeRequests({NoStamp, Stamp(1, 0)}, policies,
          Headers({"b1"}, {0, 1}, {Sha256(p) : p \in policies}, {0})
            \cup {BadHeader},
          {"genuine", "forged"}, {"a", "b"}, {"blob_header", "other aad"}),
      revoke |-> [public_key_id : {0}, blob_id : {"b1"}]]

NextCheck == NextOver(Checks)

SpecCheck == Init /\ [][NextCheck]_vars

\* Scopes: two key ids and two blobs under one policy, the clock at rest.
Scopes ==
  [create |-> [now : {NoStamp}, ttl : {Stamp(1, 0)}],
   draws |-> {0, 1},
   delete |-> [public_key_id : {1}],
   authorize |->
     AuthorizeRequests({NoStamp}, {"pol_any1"},
       Headers({"b1", "b2"}, {0, 1}, {Sha256("pol_any1")}, {0}),
       {"genuine"}, {"a"}, {"blob_header"}),
   revoke |-> [public_key_id : {0, 1}, blob_id : {"b1", "b2"}]]

NextScope == NextOver(Scopes)

SpecScope == Init /\ [][NextScope]_vars

\* Selections: two policies of the same structure and different bytes, a
\* policy with one transform per recipient and a policy declaring Times(0).
Selections ==
  LET policies == {"pol_a2", "pol_a2x", "pol_ab", "pol_a0"}
  IN [create |-> [now : {NoStamp}, ttl : {Stamp(1, 0)}],
      draws |-> {0},
      delete |-> [public_key_id : {0}],
      authorize |->
        AuthorizeRequests({NoStamp}, policies,
          Headers({"b1"}, {0}, {Sha256(p) : p \in policies}, {0, 1}),
          {"genuine"}, {"a", "b"}, {"blob_header"}),
      revoke |-> [public_key_id : {0}, blob_id : {"b1"}]]

NextSelect == NextOver(Selections)

SpecSelect == Init /\ [][NextSelect]_vars

-----------------------------------------------------------------------------
(* Vocabulary of the properties *)

Hdr(request) == BlobHeader_decode(request.blob_header)

\* The request passes the clock step (from clock value ct), the attestation,
\* both decodings and the policy commitment: it reaches the key lookup.
ReachesLookup(request, ct) ==
  /\ parse_timestamp(request.now) # ParseErr
  /\ parse_timestamp(request.now) >= ct
  /\ request.recipient_attestation # "forged"
  /\ Len(request.blob_header) = 4
  /\ Hdr(request).access_policy_sha256 = Sha256(request.access_policy)
  /\ request.access_policy \in PolicyBytes

\* The key the request names is stored and outlives the request's `now`.
OnLiveKey(request) ==
  /\ Hdr(request).public_key_id \in DOMAIN audit
  /\ Hdr(request).public_key_id \notin Expired(per_key_ledgers, request.now)

\* The transforms of the request's policy that match its recipient.
Matching(request) ==
  LET policy == DataAccessPolicy_decode(request.access_policy)
  IN {i \in 1 .. Len(policy) :
        policy[i].tag = NoMatcher \/ policy[i].tag = request.recipient_tag}

Entry(request, i) ==
  <<Hdr(request).blob_id, Hdr(request).access_policy_sha256, i>>

\* Transform i of the request's policy has had all its Times(n) debited.
Spent(request, i) ==
  LET policy == DataAccessPolicy_decode(request.access_policy)
  IN /\ policy[i].limited
     /\ Debits(audit[Hdr(request).public_key_id], Entry(request, i)) >= policy[i].times

IsAuthorize(l) == l.op = "AuthorizeAccess"

-----------------------------------------------------------------------------
(* Budgets and revocation: C1 - C4, under SpecBudget *)

\* C1: on a live key and a blob not revoked, under a policy whose only
\* transform matching the recipient has budget Times(n), n >= 1, an
\* AuthorizeAccess that passes the other checks and whose re-wrap succeeds
\* is granted while fewer than n grants were debited to that transform and
\* fails with ResourceExhausted once n were: after the first grant the next
\* n-1 equivalent calls succeed and the one after them is exhausted.
C1_TimesBudgetCounted ==
  [][ ( /\ IsAuthorize(last')
        /\ ReachesLookup(last'.request, current_time)
        /\ OnLiveKey(last'.request)
        /\ Hdr(last'.request).blob_id
             \notin audit[Hdr(last'.request).public_key_id].revoked
        /\ last'.request.sealed_aad = "blob_header" )
      => \A i \in Matching(last'.request) :
           ( /\ Matching(last'.request) = {i}
             /\ DataAccessPolicy_decode(last'.request.access_policy)[i].limited
             /\ DataAccessPolicy_decode(last'.request.access_policy)[i].times >= 1 )
           => IF Spent(last'.request, i)
              THEN last'.code = "ResourceExhausted"
              ELSE last'.code = "Ok" ]_vars

\* The call after two grants under Times(2) came back exhausted.
C1_Witness ==
  /\ IsAuthorize(last)
  /\ last.code = "ResourceExhausted"
  /\ last.request.access_policy = "pol_a2"
  /\ last.request.recipient_tag = "a"
  /\ last.request.sealed_aad = "blob_header"
  /\ Hdr(last.request).public_key_id \in DOMAIN audit
  /\ Hdr(last.request).blob_id
       \notin audit[Hdr(last.request).public_key_id].revoked
  /\ Debits(audit[Hdr(last.request).public_key_id], Entry(last.request, 1)) = 2

\* C2 as stated: after a successful RevokeAccess(k, blob) every later
\* AuthorizeAccess for (k, blob) that reaches the key lookup fails with
\* ResourceExhausted.
C2_RevokedAlwaysExhausted ==
  [][ ( /\ IsAuthorize(last')
        /\ ReachesLookup(last'.request, current_time)
        /\ <<Hdr(last'.request).public_key_id, Hdr(last'.request).blob_id>>
             \in revoked_hist )
      => last'.code = "ResourceExhausted" ]_vars

\* C2 amended: while the key a blob was revoked under is still stored, every
\* AuthorizeAccess for that key and blob that reaches the key lookup fails with
\* ResourceExhausted, whatever the policy, the recipient and the re-wrap.
C2_RevokedExhaustedWhileKeyLives ==
  [][ ( /\ IsAuthorize(last')
        /\ ReachesLookup(last'.request, current_time)
        /\ OnLiveKey(last'.request)
        /\ Hdr(last'.request).blob_id
             \in audit[Hdr(last'.request).public_key_id].revoked )
      => last'.code = "ResourceExhausted" ]_vars

\* A revoked blob never authorized before is refused under an unlimited,
\* matching transform.
C2_Witness ==
  /\ IsAuthorize(last)
  /\ last.code = "ResourceExhausted"
  /\ last.request.access_policy = "pol_a_unl"
  /\ last.request.recipient_tag = "a"
  /\ Hdr(last.request).public_key_id \in DOMAIN audit
  /\ Hdr(last.request).blob_id \in audit[Hdr(last.request).public_key_id].revoked
  /\ audit[Hdr(last.request).public_key_id].debits = <<>>

\* C3: an AuthorizeAccess that passes transform selection and fails at the
\* re-wrap returns InvalidArgument and leaves every stored key's budget tracker
\* as it was before the call.
C3_RewrapFailureKeepsBudget ==
  [][ ( /\ IsAuthorize(last')
        /\ ReachesLookup(last'.request, current_time)
        /\ OnLiveKey(last'.request)
        /\ Hdr(last'.request).blob_id
             \notin audit[Hdr(last'.request).public_key_id].revoked
        /\ \E i \in Matching(last'.request) : ~Spent(last'.request, i)
        /\ last'.request.sealed_aad # "blob_header" )
      => /\ last'.code = "InvalidArgument"
         /\ last'.step = "rewrap"
         /\ \A k \in DOMAIN per_key_ledgers' :
              /\ k \in DOMAIN per_key_ledgers
              /\ per_key_ledgers'[k].budget_tracker =
                   per_key_ledgers[k].budget_tracker ]_vars

\* A re-wrap failed on a blob with one of its two accesses already used.
C3_Witness ==
  /\ IsAuthorize(last)
  /\ last.step = "rewrap"
  /\ last.request.access_policy = "pol_a2"
  /\ Hdr(last.request).public_key_id \in DOMAIN audit
  /\ Debits(audit[Hdr(last.request).public_key_id], Entry(last.request, 1)) = 1

\* Some transform once selected for the blob under the key has had its whole
\* Times(n) debited.
SomeSpent(a, blob_id) ==
  \E e \in DOMAIN a.debits :
    /\ e[1] = blob_id
    /\ DataAccessPolicy_decode(e[2][2])[e[3]].limited
    /\ a.debits[e] >= DataAccessPolicy_decode(e[2][2])[e[3]].times

\* C4 as stated: once the transform selected for a blob under a key is
\* exhausted, no further AuthorizeAccess for that blob under that key succeeds.
C4_NoGrantAfterExhaustion ==
  [][ ( /\ IsAuthorize(last')
        /\ ReachesLookup(last'.request, current_time)
        /\ OnLiveKey(last'.request)
        /\ SomeSpent(audit[Hdr(last'.request).public_key_id],
                     Hdr(last'.request).blob_id) )
      => last'.code # "Ok" ]_vars

\* C4 amended: once every transform of the request's policy that matches the
\* recipient is exhausted for the blob under the key, the AuthorizeAccess fails
\* with ResourceExhausted.
C4_NoGrantOnceAllMatchingSpent ==
  [][ ( /\ IsAuthorize(last')
        /\ ReachesLookup(last'.request, current_time)
        /\ OnLiveKey(last'.request)
        /\ Matching(last'.request) # {}
        /\ \A i \in Matching(last'.request) : Spent(last'.request, i) )
      => last'.code = "ResourceExhausted" ]_vars

\* Both matching transforms of the two-transform policy are spent and the
\* third call is refused.
C4_Witness ==
  /\ IsAuthorize(last)
  /\ last.code = "ResourceExhausted"
  /\ last.request.access_policy = "pol_two"
  /\ last.request.recipient_tag = "a"
  /\ Hdr(last.request).public_key_id \in DOMAIN audit
  /\ Hdr(last.request).blob_id
       \notin audit[Hdr(last.request).public_key_id].revoked
  /\ Debits(audit[Hdr(last.request).public_key_id], Entry(last.request, 1)) = 1
  /\ Debits(audit[Hdr(last.request).public_key_id], Entry(last.request, 2)) = 1

-----------------------------------------------------------------------------
(* The clock and the key lifecycle: C5 - C9, under Spec *)

CarriesNow(l) == l.op \in {"CreateKey", "AuthorizeAccess"}

\* C5: a CreateKey or AuthorizeAccess whose now is strictly less than
\* current_time fails with InvalidArgument at the clock step and leaves
\* current_time and the key map, budget trackers included, unchanged.
C5_NonMonotonicNowRejected ==
  [][ ( /\ CarriesNow(last')
        /\ parse_timestamp(last'.request.now) # ParseErr
        /\ parse_timestamp(last'.request.now) < current_time )
      => /\ last'.code = "InvalidArgument"
         /\ last'.step = "clock"
         /\ current_time' = current_time
         /\ per_key_ledgers' = per_key_ledgers ]_vars

\* A well-formed now below the clock was refused while a key was stored.
C5_Witness ==
  /\ CarriesNow(last)
  /\ last.step = "clock"
  /\ parse_timestamp(last.request.now) # ParseErr
  /\ parse_timestamp(last.request.now) < current_time
  /\ DOMAIN per_key_ledgers # {}

\* C6: current_time never decreases, whatever the call and its outcome.
C6_ClockMonotone == [][current_time' >= current_time]_vars

\* The clock has advanced and a later call with an earlier now was refused.
C6_Witness ==
  /\ current_time > 0
  /\ last.op = "AuthorizeAccess"
  /\ last.code = "InvalidArgument"
  /\ parse_timestamp(last.request.now) = 0

C7_EqualOnlyByZeroTtl ==
  \A k \in DOMAIN per_key_ledgers' :
    per_key_ledgers'[k].expiration = current_time'
    => \/ /\ last'.op = "CreateKey"
          /\ last'.key_id = k
          /\ parse_duration(last'.request.ttl) = 0
       \/ /\ k \in DOMAIN per_key_ledgers
          /\ per_key_ledgers[k].expiration = current_time
          /\ current_time' = current_time

Names(l, k, ct) ==
  \/ l.op \in {"DeleteKey", "RevokeAccess"} /\ l.request.public_key_id = k
  \/ /\ IsAuthorize(l)
     /\ ReachesLookup(l.request, ct)
     /\ Hdr(l.request).public_key_id = k

\* C8 as stated: after DeleteKey(k) succeeded, or after a call carrying
\* now >= expiration(k), every later operation naming k returns NotFound.
C8_RetiredKeyNotFound ==
  [][ \A k \in retired :
        Names(last', k, current_time) => last'.code = "NotFound" ]_vars

\* C8 amended: ... every later operation naming k returns NotFound until a
\* CreateKey stores a new key under the id k.
C8_RetiredKeyNotFoundUntilReissued ==
  [][ \A k \in retired \ DOMAIN audit :
        Names(last', k, current_time) => last'.code = "NotFound" ]_vars

\* An AuthorizeAccess reached the key lookup of a key issued and since gone.
C8_Witness ==
  /\ IsAuthorize(last)
  /\ last.code = "NotFound"
  /\ Hdr(last.request).public_key_id \in issued \cap retired
  /\ Hdr(last.request).public_key_id \notin DOMAIN audit

\* C9 as stated: two successful CreateKey calls never return the same
\* public_key_id.
C9_KeyIdsNeverRepeat ==
  [][ (last'.op = "CreateKey" /\ last'.code = "Ok")
      => last'.key_id \notin issued ]_vars

\* C9 amended: a successful CreateKey returns an id under which no key is
\* stored once the call's own eviction is done; the id of a deleted or evicted
\* key can be returned again.
C9_KeyIdFreeWhenDrawn ==
  [][ (last'.op = "CreateKey" /\ last'.code = "Ok")
      => last'.key_id
           \notin DOMAIN audit \ Expired(per_key_ledgers, last'.request.now) ]_vars

\* A CreateKey returned the id of a key since gone while another key is stored.
C9_Witness ==
  /\ last.op = "CreateKey"
  /\ last.code = "Ok"
  /\ last.key_id \in retired
  /\ Cardinality(DOMAIN per_key_ledgers) = 2

-----------------------------------------------------------------------------
(* Status codes: C10, under SpecWidth *)

\* C10: every call succeeds or returns InvalidArgument, NotFound,
\* FailedPrecondition, ResourceExhausted or Internal; DeleteKey and
\* RevokeAccess fail only with NotFound, CreateKey only with InvalidArgument.
C10_CallsReturnAStatus ==
  /\ last.code \in {"Ok", "InvalidArgument", "NotFound", "FailedPrecondition",
                    "ResourceExhausted", "Internal"}
  /\ last.op \in {"DeleteKey", "RevokeAccess"} => last.code \in {"Ok", "NotFound"}
  /\ last.op = "CreateKey" => last.code \in {"Ok", "InvalidArgument"}

-----------------------------------------------------------------------------
(* The order of the checks of AuthorizeAccess: C11 - C13, under SpecCheck *)

\* The key the header names is stored when the clock step is done.
KeyKept(request) ==
  Hdr(request).public_key_id
    \in DOMAIN per_key_ledgers \ Expired(per_key_ledgers, request.now)

\* What the checks, taken in the documented order, answer to the request in
\* the current state: <<check, code>> of the first that fails.
FirstFailure(request) ==
  IF \/ parse_timestamp(request.now) = ParseErr
     \/ parse_timestamp(request.now) < current_time
  THEN <<"clock", "InvalidArgument">>
  ELSE IF request.recipient_attestation = "forged"
  THEN <<"attestation", "InvalidArgument">>
  ELSE IF Len(request.blob_header) # 4
  THEN <<"header", "InvalidArgument">>
  ELSE IF Hdr(request).access_policy_sha256 # Sha256(request.access_policy)
  THEN <<"policy_hash", "InvalidArgument">>
  ELSE IF request.access_policy \notin PolicyBytes
  THEN <<"policy", "InvalidArgument">>
  ELSE IF ~KeyKept(request)
  THEN <<"key", "NotFound">>
  ELSE IF Hdr(request).blob_id \in audit[Hdr(request).public_key_id].revoked
  THEN <<"transform", "ResourceExhausted">>
  ELSE IF Matching(request) = {}
  THEN <<"transform", "FailedPrecondition">>
  ELSE IF \A i \in Matching(request) : Spent(request, i)
  THEN <<"transform", "ResourceExhausted">>
  ELSE IF request.sealed_aad # "blob_header"
  THEN <<"rewrap", "InvalidArgument">>
  ELSE <<"done", "Ok">>

\* C11: AuthorizeAccess applies its checks in the order clock, attestation,
\* header decode, policy hash, policy decode, key lookup, transform selection,
\* re-wrap, and the first check that fails decides the code returned.
C11_FirstFailingCheckDecides ==
  [][ IsAuthorize(last')
      => <<last'.step, last'.code>> = FirstFailure(last'.request) ]_vars

\* A request with a mismatching policy digest for a key its own `now` evicted
\* was refused for the digest.
C11_Witness ==
  /\ IsAuthorize(last)
  /\ last.step = "policy_hash"
  /\ last.code = "InvalidArgument"
  /\ Hdr(last.request).public_key_id \in DOMAIN last.gone

\* The step adds no key and leaves the budget tracker of every key it keeps
\* as it was.
BudgetsKept ==
  \A k \in DOMAIN per_key_ledgers' :
    /\ k \in DOMAIN per_key_ledgers
    /\ per_key_ledgers'[k].budget_tracker = per_key_ledgers[k].budget_tracker

\* C12: an AuthorizeAccess whose access_policy bytes do not hash to the
\* header's access_policy_sha256 fails with InvalidArgument before the key
\* lookup and the budget tracker: no budget of any key or blob changes.
C12_TamperedPolicyRejected ==
  [][ ( /\ IsAuthorize(last')
        /\ Len(last'.request.blob_header) = 4
        /\ Hdr(last'.request).access_policy_sha256
             # Sha256(last'.request.access_policy) )
      => /\ last'.code = "InvalidArgument"
         /\ last'.step \in {"clock", "attestation", "policy_hash"}
         /\ BudgetsKept ]_vars

\* A request valid but for its digest, on a stored key with budget left, was
\* refused for the digest.
C12_Witness ==
  /\ IsAuthorize(last)
  /\ last.step = "policy_hash"
  /\ last.request.access_policy = "pol_a2"
  /\ last.request.recipient_tag = "a"
  /\ last.request.sealed_aad = "blob_header"
  /\ Hdr(last.request).public_key_id \in DOMAIN per_key_ledgers
  /\ Hdr(last.request).blob_id
       \notin audit[Hdr(last.request).public_key_id].revoked
  /\ Debits(audit[Hdr(last.request).public_key_id],
            <<Hdr(last.request).blob_id, Sha256("pol_a2"), 1>>) = 1

\* C13: on a live key and a blob not revoked, an AuthorizeAccess that reaches
\* transform selection with a policy none of whose transforms matches the
\* recipient (a policy with no transform included) fails with
\* FailedPrecondition and consumes no budget.
C13_NoMatchingTransform ==
  [][ ( /\ IsAuthorize(last')
        /\ ReachesLookup(last'.request, current_time)
        /\ OnLiveKey(last'.request)
        /\ Hdr(last'.request).blob_id
             \notin audit[Hdr(last'.request).public_key_id].revoked
        /\ Matching(last'.request) = {} )
      => /\ last'.code = "FailedPrecondition"
         /\ BudgetsKept ]_vars

\* A recipient tagged b was refused under a policy for a, on a key with one
\* access already debited.
C13_Witness ==
  /\ IsAuthorize(last)
  /\ last.code = "FailedPrecondition"
  /\ last.request.access_policy = "pol_a2"
  /\ last.request.recipient_tag = "b"
  /\ Hdr(last.request).public_key_id \in DOMAIN audit
  /\ Debits(audit[Hdr(last.request).public_key_id], Entry(last.request, 1)) = 1

-----------------------------------------------------------------------------
(* Eviction, DeleteKey and RevokeAccess: C14 - C18 *)

\* C14: within one AuthorizeAccess, eviction comes before the key lookup: when
\* the request's now has reached the expiration of the key its header names
\* (now = expiration included) and the request reaches the key lookup, the
\* call returns NotFound although the key was stored when the call started.
C14_EvictedBeforeLookup ==
  [][ ( /\ IsAuthorize(last')
        /\ ReachesLookup(last'.request, current_time)
        /\ Hdr(last'.request).public_key_id \in DOMAIN per_key_ledgers
        /\ parse_timestamp(last'.request.now)
             >= per_key_ledgers[Hdr(last'.request).public_key_id].expiration )
      => /\ last'.code = "NotFound"
         /\ Hdr(last'.request).public_key_id \notin DOMAIN per_key_ledgers' ]_vars

\* An otherwise valid request whose now equals the expiration of its key found
\* the key gone.
C14_Witness ==
  /\ IsAuthorize(last)
  /\ last.code = "NotFound"
  /\ last.request.sealed_aad = "blob_header"
  /\ Hdr(last.request).public_key_id \in DOMAIN last.gone
  /\ last.gone[Hdr(last.request).public_key_id] = parse_timestamp(last.request.now)
  /\ parse_timestamp(last.request.now) > 0

\* C15: DeleteKey(k) succeeds iff k is a key of per_key_ledgers and otherwise
\* fails with NotFound; it removes exactly the entry k, leaves every other
\* entry (expiration and budget tracker) and the clock as they were, and a
\* second DeleteKey(k) right after a successful one returns NotFound.
C15_DeleteRemovesExactlyOne ==
  [][ last'.op = "DeleteKey"
      => /\ last'.code = (IF last'.request.public_key_id \in DOMAIN per_key_ledgers
                          THEN "Ok" ELSE "NotFound")
         /\ DOMAIN per_key_ledgers' =
              DOMAIN per_key_ledgers \ {last'.request.public_key_id}
         /\ \A j \in DOMAIN per_key_ledgers' : per_key_ledgers'[j] = per_key_ledgers[j]
         /\ current_time' = current_time
         /\ (last.op = "DeleteKey" /\ last.code = "Ok" /\ last.request = last'.request)
              => last'.code = "NotFound" ]_vars

\* A key was deleted while the other key, with an access debited, stayed.
C15_Witness ==
  /\ last.op = "DeleteKey"
  /\ last.code = "Ok"
  /\ last.request.public_key_id \notin DOMAIN per_key_ledgers
  /\ \E j \in DOMAIN per_key_ledgers :
       per_key_ledgers[j].budget_tracker.budgets # <<>>

\* C16: a RevokeAccess naming a public_key_id that is not a key of
\* per_key_ledgers fails with NotFound and changes neither the clock nor any
\* entry: no blob of any other key becomes revoked.
C16_RevokeUnknownKey ==
  [][ ( /\ last'.op = "RevokeAccess"
        /\ last'.request.public_key_id \notin DOMAIN per_key_ledgers )
      => /\ last'.code = "NotFound"
         /\ per_key_ledgers' = per_key_ledgers
         /\ current_time' = current_time ]_vars

\* A RevokeAccess for a key not stored was refused while another key is
\* stored with nothing revoked.
C16_Witness ==
  /\ last.op = "RevokeAccess"
  /\ last.code = "NotFound"
  /\ \E j \in DOMAIN per_key_ledgers :
       per_key_ledgers[j].budget_tracker.revoked = {}

\* The residual budgets recorded in the ledgers, per key.
Residuals(ledgers) ==
  [j \in DOMAIN ledgers |-> ledgers[j].budget_tracker.budgets]

\* AuthorizeAccess(request) answers the same, and leaves the same residual
\* budgets, from the state after the step as from the state before it.
SameAnswer(request) ==
  LET without == authorize_access(current_time, per_key_ledgers, request)
      with == authorize_access(current_time', per_key_ledgers', request)
  IN /\ with.code = without.code
     /\ with.index = without.index
     /\ Residuals(with.per_key_ledgers) = Residuals(without.per_key_ledgers)

\* C17: revocation is scoped to one (key, blob): a successful
\* RevokeAccess(k, b) changes nothing but the revoked mark of b under k, and
\* an AuthorizeAccess for another blob under k, or for b under another key,
\* has the same outcome and leaves the same residual budgets as it would have
\* without the revocation.
C17_RevocationScoped ==
  [][ (last'.op = "RevokeAccess" /\ last'.code = "Ok")
      => /\ DOMAIN per_key_ledgers' = DOMAIN per_key_ledgers
         /\ current_time' = current_time
         /\ \A j \in DOMAIN per_key_ledgers :
              /\ per_key_ledgers'[j].expiration = per_key_ledgers[j].expiration
              /\ per_key_ledgers'[j].budget_tracker.budgets =
                   per_key_ledgers[j].budget_tracker.budgets
              /\ \A b \in {"b1", "b2"} :
                   (j # last'.request.public_key_id \/ b # last'.request.blob_id)
                   => (b \in per_key_ledgers'[j].budget_tracker.revoked
                       <=> b \in per_key_ledgers[j].budget_tracker.revoked)
         /\ \A request \in Scopes.authorize :
              ( \/ Hdr(request).public_key_id # last'.request.public_key_id
                \/ Hdr(request).blob_id # last'.request.blob_id )
              => SameAnswer(request) ]_vars

\* A blob was revoked under a key whose other blob, and whose blob under the
\* other key, can still be authorized.
C17_Witness ==
  /\ last.op = "RevokeAccess"
  /\ last.code = "Ok"
  /\ DOMAIN per_key_ledgers = {0, 1}
  /\ \A j \in {0, 1} : \A b \in {"b1", "b2"} :
       (b \in per_key_ledgers[j].budget_tracker.revoked)
       <=> (j = last.request.public_key_id /\ b = last.request.blob_id)
  /\ \A j \in {0, 1} : per_key_ledgers[j].budget_tracker.budgets = <<>>

\* C18: RevokeAccess is idempotent: in every reachable state, a
\* RevokeAccess(k, b) that succeeds can be repeated at once, succeeds again and
\* leaves the clock and every entry as the first call left them.
C18_RevokeIdempotent ==
  \A request \in Budgets.revoke :
    LET once == revoke_access(current_time, per_key_ledgers, request)
        twice == revoke_access(once.current_time, once.per_key_ledgers, request)
    IN once.code = "Ok"
       => /\ twice.code = "Ok"
          /\ twice.per_key_ledgers = once.per_key_ledgers
          /\ twice.current_time = once.current_time
          /\ once.current_time = current_time

\* A blob with one access debited was revoked; the revocation can be repeated.
C18_Witness ==
  /\ last.op = "RevokeAccess"
  /\ last.code = "Ok"
  /\ last.request.public_key_id \in DOMAIN per_key_ledgers
  /\ last.request.blob_id
       \in per_key_ledgers[last.request.public_key_id].budget_tracker.revoked
  /\ per_key_ledgers[last.request.public_key_id].budget_tracker.budgets # <<>>

-----------------------------------------------------------------------------
(* The effects of CreateKey and of a failing AuthorizeAccess: C19, C20 *)

\* C19: a successful CreateKey(now, ttl) sets current_time to now, stores one
\* new key whose expiration is exactly now + ttl with an empty budget tracker,
\* keeps the keys that now has not reached as they were, and returns
\* PublicKeyDetails with that key's id, issued = now and
\* expiration = now + ttl.
C19_CreateKeyEffects ==
  [][ (last'.op = "CreateKey" /\ last'.code = "Ok")
      => LET now == parse_timestamp(last'.request.now)
             ttl == parse_duration(last'.request.ttl)
             id == last'.details.public_key_id
             kept == DOMAIN per_key_ledgers \ Expired(per_key_ledgers, last'.request.now)
         IN /\ current_time' = now
            /\ id \notin kept
            /\ DOMAIN per_key_ledgers' = kept \cup {id}
            /\ \A j \in kept : per_key_ledgers'[j] = per_key_ledgers[j]
            /\ per_key_ledgers'[id].expiration = now + ttl
            /\ per_key_ledgers'[id].budget_tracker = [budgets |-> <<>>, revoked |-> {}]
            /\ last'.details.issued.some
            /\ last'.details.issued.nanos \in 0 .. NanosPerSec - 1
            /\ parse_timestamp(last'.details.issued) = now
            /\ last'.details.expiration.some
            /\ last'.details.expiration.nanos \in 0 .. NanosPerSec - 1
            /\ parse_timestamp(last'.details.expiration) = now + ttl ]_vars

\* A key was created at a now given with more than a second of nanos, for a
\* ttl that is not zero.
C19_Witness ==
  /\ last.op = "CreateKey"
  /\ last.code = "Ok"
  /\ last.request.now.nanos >= NanosPerSec
  /\ last.details.issued # last.request.now
  /\ parse_duration(last.request.ttl) > 0

\* C20: an AuthorizeAccess that returns an error after the clock step leaves
\* the keys and every budget tracker as they were right after the clock step:
\* its only effects are current_time = now and the eviction of the keys with
\* expiration <= now.
C20_FailedAuthorizeKeepsState ==
  [][ ( /\ IsAuthorize(last')
        /\ last'.code # "Ok"
        /\ parse_timestamp(last'.request.now) # ParseErr
        /\ parse_timestamp(last'.request.now) >= current_time )
      => /\ current_time' = parse_timestamp(last'.request.now)
         /\ DOMAIN per_key_ledgers' =
              DOMAIN per_key_ledgers \ Expired(per_key_ledgers, last'.request.now)
         /\ \A j \in DOMAIN per_key_ledgers' :
              per_key_ledgers'[j] = per_key_ledgers[j] ]_vars

\* A request with a forged attestation was refused; the clock advance and the
\* eviction its now caused stay.
C20_Witness ==
  /\ IsAuthorize(last)
  /\ last.step = "attestation"
  /\ last.code = "InvalidArgument"
  /\ DOMAIN last.gone # {}
  /\ current_time = parse_timestamp(last.request.now)
  /\ per_key_ledgers = <<>>

-----------------------------------------------------------------------------
(* CreateKey on overflow: C21, under SpecWidth *)

\* C21: a CreateKey that fails with InvalidArgument because now + ttl
\* overflows the signed 64-bit seconds adds no key: per_key_ledgers after the
\* call holds exactly the keys it held after the clock step of the call.
C21_OverflowAddsNoKey ==
  [][ ( /\ last'.op = "CreateKey"
        /\ last'.code = "InvalidArgument"
        /\ parse_timestamp(last'.request.now) # ParseErr
        /\ parse_timestamp(last'.request.now) >= current_time
        /\ parse_duration(last'.request.ttl) # ParseErr
        /\ as_secs(parse_timestamp(last'.request.now)
                   + parse_duration(last'.request.ttl)) > I64Max )
      => /\ DOMAIN per_key_ledgers' =
              DOMAIN per_key_ledgers \ Expired(per_key_ledgers, last'.request.now)
         /\ \A j \in DOMAIN per_key_ledgers' :
              per_key_ledgers'[j] = per_key_ledgers[j] ]_vars

-----------------------------------------------------------------------------
(* Transform selection: C22 - C26 *)

\* The request reaches the tracker of a stored key for a blob not revoked.
ReachesTracker(request, ct) ==
  /\ ReachesLookup(request, ct)
  /\ OnLiveKey(request)
  /\ Hdr(request).blob_id \notin audit[Hdr(request).public_key_id].revoked

\* The matching transforms of the request's policy with budget left.
Funded(request) == {i \in Matching(request) : ~Spent(request, i)}

\* C22: transform selection is deterministic and first-match: a granted
\* AuthorizeAccess is debited to the smallest index, in policy order, of a
\* transform that matches the recipient and has residual budget for
\* (blob_id, policy_hash, index); when no matching transform has budget left
\* the call fails with ResourceExhausted.  With two matching transforms of
\* budgets Times(a) and Times(b), the first a grants go to the first, the next
\* b to the second and the call after them is exhausted.
C22_FirstFundedMatchSelected ==
  [][ ( /\ IsAuthorize(last')
        /\ ReachesTracker(last'.request, current_time)
        /\ Matching(last'.request) # {}
        /\ last'.request.sealed_aad = "blob_header" )
      => IF Funded(last'.request) = {}
         THEN last'.code = "ResourceExhausted"
         ELSE /\ last'.code = "Ok"
              /\ last'.index \in Funded(last'.request)
              /\ \A i \in Funded(last'.request) : last'.index <= i
              /\ DataAccessPolicy_decode(last'.request.access_policy)
                   [last'.index].limited
                 => per_key_ledgers'[Hdr(last'.request).public_key_id]
                      .budget_tracker.budgets[Entry(last'.request, last'.index)]
                    = DataAccessPolicy_decode(last'.request.access_policy)
                        [last'.index].times
                      - Debits(audit[Hdr(last'.request).public_key_id],
                               Entry(last'.request, last'.index)) - 1 ]_vars

\* With two matching transforms of one access each, the second grant went to
\* the second transform.
C22_Witness ==
  /\ IsAuthorize(last)
  /\ last.code = "Ok"
  /\ last.request.access_policy = "pol_two"
  /\ last.request.recipient_tag = "a"
  /\ last.index = 2
  /\ Debits(audit[Hdr(last.request).public_key_id], Entry(last.request, 1)) = 1
  /\ Debits(audit[Hdr(last.request).public_key_id], Entry(last.request, 2)) = 1

\* C23: budget accounting is keyed by (blob_id, policy_hash, index): a grant
\* under a policy with hash h changes no residual recorded under another hash,
\* and whether a call under a policy is granted depends only on the grants
\* debited under that policy's own hash, even when another policy with the
\* same transforms was used for the same blob.
C23_BudgetsKeyedByPolicyHash ==
  [][ ( /\ IsAuthorize(last')
        /\ ReachesTracker(last'.request, current_time) )
      => LET k == Hdr(last'.request).public_key_id
             h == Hdr(last'.request).access_policy_sha256
             before == per_key_ledgers[k].budget_tracker.budgets
             after == per_key_ledgers'[k].budget_tracker.budgets
         IN /\ \A e \in DOMAIN after :
                 e[2] # h => e \in DOMAIN before /\ after[e] = before[e]
            /\ \A e \in DOMAIN before : e \in DOMAIN after
            /\ Matching(last'.request) # {}
               => (last'.code = "Ok" <=> Funded(last'.request) # {}) ]_vars

\* A policy was granted its first access for a blob after a policy with the
\* same transforms and other bytes had used all of its own.
C23_Witness ==
  /\ IsAuthorize(last)
  /\ last.code = "Ok"
  /\ last.request.access_policy = "pol_a2x"
  /\ Debits(audit[Hdr(last.request).public_key_id],
            <<Hdr(last.request).blob_id, Sha256("pol_a2"), 1>>) = 2
  /\ Debits(audit[Hdr(last.request).public_key_id],
            <<Hdr(last.request).blob_id, Sha256("pol_a2x"), 1>>) = 1

\* C24: whether a refusal is ResourceExhausted or FailedPrecondition depends
\* on the matching transforms alone: the call fails with FailedPrecondition
\* exactly when no transform of the policy matches the recipient, and with
\* ResourceExhausted when some transform matches and every matching one is
\* exhausted, even if a transform that does not match still has budget.
C24_ExhaustedOrNoMatch ==
  [][ ( /\ IsAuthorize(last')
        /\ ReachesTracker(last'.request, current_time) )
      => /\ last'.code = "FailedPrecondition" <=> Matching(last'.request) = {}
         /\ (Matching(last'.request) # {} /\ Funded(last'.request) = {})
              => last'.code = "ResourceExhausted" ]_vars

\* Recipient a was refused as exhausted while the transform for b, which does
\* not match it, has all of its budget.
C24_Witness ==
  /\ IsAuthorize(last)
  /\ last.code = "ResourceExhausted"
  /\ last.request.access_policy = "pol_ab"
  /\ last.request.recipient_tag = "a"
  /\ Hdr(last.request).public_key_id \in DOMAIN audit
  /\ Hdr(last.request).blob_id
       \notin audit[Hdr(last.request).public_key_id].revoked
  /\ Debits(audit[Hdr(last.request).public_key_id], Entry(last.request, 1)) = 1
  /\ Debits(audit[Hdr(last.request).public_key_id], Entry(last.request, 2)) = 0

\* C25: a matching transform that declares no AccessBudget is unlimited: on a
\* live key and a blob not revoked, every valid AuthorizeAccess against it is
\* granted, however many were granted before, and none is ResourceExhausted.
C25_UnlimitedNeverExhausted ==
  [][ ( /\ IsAuthorize(last')
        /\ ReachesTracker(last'.request, current_time)
        /\ \E i \in Matching(last'.request) :
             ~DataAccessPolicy_decode(last'.request.access_policy)[i].limited
        /\ last'.request.sealed_aad = "blob_header" )
      => /\ last'.code = "Ok"
         /\ ~DataAccessPolicy_decode(last'.request.access_policy)[last'.index].limited
            => per_key_ledgers'[Hdr(last'.request).public_key_id].budget_tracker
                 = per_key_ledgers[Hdr(last'.request).public_key_id].budget_tracker
    ]_vars

\* One more access was granted under the unlimited transform after as many
\* grants as the history counts.
C25_Witness ==
  /\ IsAuthorize(last)
  /\ last.code = "Ok"
  /\ last.request.access_policy = "pol_a_unl"
  /\ Debits(audit[Hdr(last.request).public_key_id], Entry(last.request, 1))
       = MaxDebits

\* C26: the budget commit never fails: whenever transform selection returned
\* an index and the re-wrap succeeded, update_budget succeeds in the same
\* call, so no call stops at the budget update and none returns Internal.
C26_CommitNeverFails ==
  /\ last.code # "Internal"
  /\ last.step # "budget"

\* A grant took the last access of a transform: the commit brought its
\* residual to zero.
C26_Witness ==
  /\ IsAuthorize(last)
  /\ last.code = "Ok"
  /\ last.request.access_policy = "pol_ab"
  /\ last.request.recipient_tag = "b"
  /\ Entry(last.request, 2)
       \in DOMAIN per_key_ledgers[Hdr(last.request).public_key_id]
                    .budget_tracker.budgets
  /\ per_key_ledgers[Hdr(last.request).public_key_id]
       .budget_tracker.budgets[Entry(last.request, 2)] = 0

-----------------------------------------------------------------------------
(* Absent and malformed times: C27, C28 *)

\* C27: an absent now is time zero: a CreateKey or AuthorizeAccess without
\* now passes the clock step iff current_time is 0, and once current_time > 0
\* it fails with InvalidArgument at the clock step without changing state.
C27_AbsentNowIsZero ==
  [][ (CarriesNow(last') /\ ~last'.request.now.some)
      => IF current_time = 0
         THEN /\ last'.step # "clock"
              /\ current_time' = 0
              /\ \A j \in DOMAIN per_key_ledgers :
                   per_key_ledgers[j].expiration <= 0
                   => j \notin DOMAIN per_key_ledgers' \/ last'.key_id = j
         ELSE /\ last'.code = "InvalidArgument"
              /\ last'.step = "clock"
              /\ current_time' = current_time
              /\ per_key_ledgers' = per_key_ledgers ]_vars

\* A request without now was refused at the clock step once the clock had
\* advanced, with a key stored.
C27_Witness ==
  /\ CarriesNow(last)
  /\ ~last.request.now.some
  /\ last.step = "clock"
  /\ last.code = "InvalidArgument"
  /\ current_time > 0
  /\ DOMAIN per_key_ledgers # {}

\* A timestamp with a negative field; a duration below zero.
Malformed(ts) == ts.some /\ (ts.seconds < 0 \/ ts.nanos < 0)
Negative(d) == d.some /\ d.seconds * NanosPerSec + d.nanos < 0
NowOf(request) ==
  IF request.now.some
  THEN request.now.seconds * NanosPerSec + request.now.nanos
  ELSE 0

\* C28: a CreateKey or AuthorizeAccess whose now has a negative field fails
\* with InvalidArgument at the clock step and changes neither current_time nor
\* the key map; a CreateKey with a well-formed, monotonic now and a negative
\* ttl fails with InvalidArgument, stores no key, and keeps the clock advance
\* and the eviction of its first step.
C28_MalformedTimesRejected ==
  [][ /\ (CarriesNow(last') /\ Malformed(last'.request.now))
         => /\ last'.code = "InvalidArgument"
            /\ last'.step = "clock"
            /\ current_time' = current_time
            /\ per_key_ledgers' = per_key_ledgers
      /\ ( /\ last'.op = "CreateKey"
           /\ ~Malformed(last'.request.now)
           /\ NowOf(last'.request) >= current_time
           /\ Negative(last'.request.ttl) )
         => /\ last'.code = "InvalidArgument"
            /\ last'.step = "ttl"
            /\ current_time' = NowOf(last'.request)
            /\ DOMAIN per_key_ledgers'
                 = {k \in DOMAIN per_key_ledgers :
                      per_key_ledgers[k].expiration > NowOf(last'.request)}
            /\ \A k \in DOMAIN per_key_ledgers' :
                 per_key_ledgers'[k] = per_key_ledgers[k] ]_vars

\* A request whose now has a negative field was refused while a key was stored
\* and the clock had advanced.
C28_Witness ==
  /\ CarriesNow(last)
  /\ Malformed(last.request.now)
  /\ last.code = "InvalidArgument"
  /\ current_time > 0
  /\ DOMAIN per_key_ledgers # {}

-----------------------------------------------------------------------------
(* Calls without a clock: C29 *)

\* C29: DeleteKey and RevokeAccess, successful or not, leave current_time as
\* it was and evict nothing: the keys stored afterwards are those stored
\* before, less the key a successful DeleteKey names, and a key whose
\* expiration the clock has reached stays stored.
C29_NoClockNoEviction ==
  [][ last'.op \in {"DeleteKey", "RevokeAccess"}
      => /\ current_time' = current_time
         /\ DOMAIN per_key_ledgers' =
              IF last'.op = "DeleteKey" /\ last'.code = "Ok"
              THEN DOMAIN per_key_ledgers \ {last'.request.public_key_id}
              ELSE DOMAIN per_key_ledgers
         /\ \A k \in DOMAIN per_key_ledgers' :
              per_key_ledgers'[k].expiration = per_key_ledgers[k].expiration ]_vars

\* A RevokeAccess ran while another key, whose expiration the clock had
\* reached, was stored, and that key is still stored.
C29_Witness ==
  /\ last.op = "RevokeAccess"
  /\ current_time > 0
  /\ \E k \in DOMAIN per_key_ledgers :
       /\ per_key_ledgers[k].expiration <= current_time
       /\ k # last.request.public_key_id

-----------------------------------------------------------------------------
(* The header's node id: C30 *)

\* The request with the node id of its header replaced.
WithNode(request, n) ==
  [request EXCEPT !.blob_header =
     BlobHeader_encode([BlobHeader_decode(@) EXCEPT !.access_policy_node_id = n])]

\* C30: access_policy_node_id is not consulted: from every reachable state,
\* two AuthorizeAccess requests that differ only in the node id of their
\* header have the same outcome: the same status, the same transform index,
\* the same clock and the same key map, budget debit included.
C30_NodeIdNotConsulted ==
  \A request \in Selections.authorize :
    \A n \in {Hdr(r).access_policy_node_id : r \in Selections.authorize} :
      authorize_access(current_time, per_key_ledgers, WithNode(request, n))
        = authorize_access(current_time, per_key_ledgers, request)

\* A request whose header names node 1 was granted under the second transform
\* of its policy, the budget of the first being spent.
C30_Witness ==
  /\ IsAuthorize(last)
  /\ last.code = "Ok"
  /\ Hdr(last.request).access_policy_node_id = 1
  /\ last.request.access_policy = "pol_ab"
  /\ last.request.recipient_tag = "a"
  /\ Spent(last.request, 1)

-----------------------------------------------------------------------------
(* The key-id loop: C31, under Spec *)

\* C31: CreateKey always terminates: when every id of the id space is still a
\* key of per_key_ledgers after the clock step, a CreateKey that passes the
\* clock and ttl steps returns Internal, and no CreateKey draws ids for ever.
C31_CreateKeyTerminates ==
  [][ last'.op = "CreateKey"
      => /\ last'.code # "Diverges"
         /\ ( /\ ~Malformed(last'.request.now)
              /\ NowOf(last'.request) >= current_time
              /\ ~Negative(last'.request.ttl)
              /\ \A k \in KeyIds :
                   /\ k \in DOMAIN per_key_ledgers
                   /\ per_key_ledgers[k].expiration > NowOf(last'.request) )
            => last'.code = "Internal" ]_vars

-----------------------------------------------------------------------------
(* Budgets over whole behaviours: C32 *)

\* The transform a debit entry <<blob_id, policy_hash, index>> was made under.
TransformOf(e) == DataAccessPolicy_decode(e[2][2])[e[3]]

\* C32: in every reachable state, the grants debited to one (key instance,
\* blob_id, policy_hash, transform index) are at most the Times(n) the
\* transform declares, and a granted AuthorizeAccess was never selected a
\* transform that declares Times(0).
C32_DebitsWithinBudget ==
  /\ \A k \in DOMAIN audit :
       \A e \in DOMAIN audit[k].debits :
         TransformOf(e).limited => audit[k].debits[e] <= TransformOf(e).times
  /\ (IsAuthorize(last) /\ last.code = "Ok")
       => LET t == DataAccessPolicy_decode(last.request.access_policy)[last.index]
          IN t.limited => t.times >= 1

\* A request under the Times(0) policy was refused as exhausted, on a key with
\* no blob revoked that holds a Times(2) transform with both accesses debited.
C32_Witness ==
  /\ IsAuthorize(last)
  /\ last.code = "ResourceExhausted"
  /\ last.request.access_policy = "pol_a0"
  /\ last.request.recipient_tag = "a"
  /\ Hdr(last.request).public_key_id \in DOMAIN audit
  /\ audit[Hdr(last.request).public_key_id].revoked = {}
  /\ \E e \in DOMAIN audit[Hdr(last.request).public_key_id].debits :
       /\ TransformOf(e).times = 2
       /\ audit[Hdr(last.request).public_key_id].debits[e] = 2

-----------------------------------------------------------------------------
(* Keys of no lifetime: C33, under Spec *)

\* The stored keys whose expiration is the clock: those created with ttl 0.
Lifeless(ledgers, ct) == {k \in DOMAIN ledgers : ledgers[k].expiration = ct}

\* C33: a key created with a zero or absent ttl is stored with expiration ==
\* current_time and stays so while it is stored; an AuthorizeAccess naming it
\* is never granted: it fails the clock step, or the key is evicted before the
\* lookup and the call returns NotFound; a DeleteKey or RevokeAccess naming it
\* succeeds.
C33_ZeroTtlKeyNeverAuthorizes ==
  [][ /\ ( /\ last'.op = "CreateKey"
           /\ last'.code = "Ok"
           /\ \/ ~last'.request.ttl.some
              \/ last'.request.ttl.seconds * NanosPerSec
                   + last'.request.ttl.nanos = 0 )
         => last'.key_id \in Lifeless(per_key_ledgers', current_time')
      /\ \A k \in Lifeless(per_key_ledgers, current_time) :
           /\ k \in DOMAIN per_key_ledgers'
                => \/ k \in Lifeless(per_key_ledgers', current_time')
                   \/ last'.op = "CreateKey" /\ last'.key_id = k
           /\ (IsAuthorize(last') /\ Hdr(last'.request).public_key_id = k)
                => \/ last'.code = "InvalidArgument" /\ last'.step = "clock"
                   \/ last'.code = "NotFound" /\ k \notin DOMAIN per_key_ledgers'
           /\ ( /\ last'.op \in {"DeleteKey", "RevokeAccess"}
                /\ last'.request.public_key_id = k )
                => last'.code = "Ok" ]_vars

\* On a new service a key was created without ttl, and the AuthorizeAccess
\* naming it, without now, found it evicted by its own clock step.
C33_Witness ==
  /\ IsAuthorize(last)
  /\ last.code = "NotFound"
  /\ ~last.request.now.some
  /\ Hdr(last.request).public_key_id \in DOMAIN last.gone
  /\ last.gone[Hdr(last.request).public_key_id] = 0
  /\ current_time = 0

-----------------------------------------------------------------------------
(* Budget state only shrinks: C34, under Spec *)

\* C34: while a key stays in per_key_ledgers its budget state only shrinks:
\* in every step, for every key stored before and after it that the step did
\* not create anew, every recorded residual stays recorded and does not grow,
\* a residual first recorded is at most the Times(n) of its transform, and
\* the revoked set loses no blob.
C34_BudgetStateOnlyShrinks ==
  [][ \A k \in DOMAIN per_key_ledgers \cap DOMAIN per_key_ledgers' :
        ~(last'.op = "CreateKey" /\ last'.key_id = k)
        => LET before == per_key_ledgers[k].budget_tracker
               after == per_key_ledgers'[k].budget_tracker
           IN /\ before.revoked \subseteq after.revoked
              /\ \A e \in DOMAIN before.budgets :
                   /\ e \in DOMAIN after.budgets
                   /\ after.budgets[e] <= before.budgets[e]
              /\ \A e \in DOMAIN after.budgets \ DOMAIN before.budgets :
                   after.budgets[e] <= TransformOf(e).times ]_vars

\* After a clock advance, a blob was revoked under a key whose transform had
\* been debited to zero: both the debit and the revocation are recorded.
C34_Witness ==
  /\ last.op = "RevokeAccess"
  /\ last.code = "Ok"
  /\ current_time > 0
  /\ LET tracker == per_key_ledgers[last.request.public_key_id].budget_tracker
     IN /\ last.request.blob_id \in tracker.revoked
        /\ \E e \in DOMAIN tracker.budgets : tracker.budgets[e] = 0

-----------------------------------------------------------------------------
(* The frame of CreateKey and of the clock step: C35, C36 *)

\* The keys of the map that the clock step of a call carrying the request's
\* now leaves stored: all of them when the step fails.
Survivors(request) ==
  IF Malformed(request.now) \/ NowOf(request) < current_time
  THEN DOMAIN per_key_ledgers
  ELSE {k \in DOMAIN per_key_ledgers :
          per_key_ledgers[k].expiration > NowOf(request)}

\* C35: CreateKey never overwrites or alters a live key: the id it stores a
\* key under is not the id of a key that survived its clock step, every
\* surviving key keeps its expiration and budget tracker, and on success the
\* map is the surviving keys and exactly one more.
C35_CreateKeyKeepsLiveKeys ==
  [][ last'.op = "CreateKey"
      => /\ \A k \in Survivors(last'.request) :
              /\ k \in DOMAIN per_key_ledgers'
              /\ per_key_ledgers'[k] = per_key_ledgers[k]
         /\ last'.key_id # -1 => last'.key_id \notin Survivors(last'.request)
         /\ last'.code = "Ok"
              => /\ last'.key_id \in DOMAIN per_key_ledgers'
                 /\ DOMAIN per_key_ledgers'
                      = Survivors(last'.request) \cup {last'.key_id}
                 /\ Cardinality(DOMAIN per_key_ledgers')
                      = Cardinality(Survivors(last'.request)) + 1 ]_vars

\* A key was created, after a clock advance, next to a key with an access
\* debited, which is still stored with its debit.
C35_Witness ==
  /\ last.op = "CreateKey"
  /\ last.code = "Ok"
  /\ current_time > 0
  /\ \E k \in DOMAIN per_key_ledgers :
       /\ k # last.key_id
       /\ per_key_ledgers[k].budget_tracker.budgets # <<>>
       /\ per_key_ledgers[k].expiration > per_key_ledgers[last.key_id].expiration

\* C36: the clock step of a CreateKey or AuthorizeAccess evicts exactly the
\* keys with expiration <= now: what update_current_time leaves is the map
\* restricted to the keys with expiration > now, each with its expiration,
\* residual budgets and revoked blobs as they were; after the whole call such
\* a key is still stored with the same expiration and revoked blobs, and with
\* the same budgets unless the call is the grant that debits it, and a key
\* with expiration <= now is gone unless the call stored a new key under its
\* id.
C36_ClockEvictsExactlyExpired ==
  [][ ( /\ CarriesNow(last')
        /\ ~Malformed(last'.request.now)
        /\ NowOf(last'.request) >= current_time )
      => /\ update_current_time(current_time, per_key_ledgers,
                                last'.request.now).per_key_ledgers
              = [k \in Survivors(last'.request) |-> per_key_ledgers[k]]
         /\ \A k \in DOMAIN per_key_ledgers \ Survivors(last'.request) :
              k \in DOMAIN per_key_ledgers'
                => last'.op = "CreateKey" /\ last'.key_id = k
         /\ \A k \in Survivors(last'.request) :
              /\ k \in DOMAIN per_key_ledgers'
              /\ per_key_ledgers'[k].expiration = per_key_ledgers[k].expiration
              /\ per_key_ledgers'[k].budget_tracker.revoked
                   = per_key_ledgers[k].budget_tracker.revoked
              /\ \/ per_key_ledgers'[k].budget_tracker.budgets
                      = per_key_ledgers[k].budget_tracker.budgets
                 \/ /\ IsAuthorize(last')
                    /\ last'.code = "Ok"
                    /\ Hdr(last'.request).public_key_id = k ]_vars

\* A call set the clock past zero; a key it did not create, with an access
\* debited and a blob revoked, outlives it.
C36_Witness ==
  /\ CarriesNow(last)
  /\ last.step # "clock"
  /\ current_time > 0
  /\ current_time = NowOf(last.request)
  /\ \E k \in DOMAIN per_key_ledgers :
       /\ k # last.key_id
       /\ per_key_ledgers[k].expiration > current_time
       /\ per_key_ledgers[k].budget_tracker.budgets # <<>>
       /\ per_key_ledgers[k].budget_tracker.revoked # {}

-----------------------------------------------------------------------------
(* The frame of a grant: C37, under SpecScope *)

\* The residual of a debit entry in a tracker: the recorded one, or the
\* declared Times(n) while none is recorded.
Residual(tracker, e) ==
  IF e \in DOMAIN tracker.budgets THEN tracker.budgets[e] ELSE TransformOf(e).times

\* C37: a successful AuthorizeAccess debits exactly one unit from exactly one
\* counter: under the key of the header, the residual of (blob_id,
\* policy_hash, selected index) goes down by one when the transform declares
\* Times(n), and no other residual is recorded or changed; the trackers of
\* the other keys kept by the clock step, and every revoked set, are as they
\* were.  A transform that declares no budget has no counter, and the tracker
\* is unchanged.
C37_GrantDebitsOneCounter ==
  [][ (IsAuthorize(last') /\ last'.code = "Ok")
      => LET key == Hdr(last'.request).public_key_id
             entry == Entry(last'.request, last'.index)
             before == per_key_ledgers[key].budget_tracker
             after == per_key_ledgers'[key].budget_tracker
         IN /\ key \in DOMAIN per_key_ledgers
            /\ IF TransformOf(entry).limited
               THEN /\ DOMAIN after.budgets = DOMAIN before.budgets \cup {entry}
                    /\ after.budgets[entry] = Residual(before, entry) - 1
                    /\ \A e \in DOMAIN before.budgets \ {entry} :
                         after.budgets[e] = before.budgets[e]
               ELSE after.budgets = before.budgets
            /\ after.revoked = before.revoked
            /\ \A k \in DOMAIN per_key_ledgers' \ {key} :
                 /\ k \in DOMAIN per_key_ledgers
                 /\ per_key_ledgers'[k] = per_key_ledgers[k]
            /\ per_key_ledgers'[key].expiration = per_key_ledgers[key].expiration ]_vars

\* A blob was granted its one access under a key that holds another blob,
\* revoked, while the other key holds a spent budget for the same blob.
C37_Witness ==
  /\ IsAuthorize(last)
  /\ last.code = "Ok"
  /\ DOMAIN per_key_ledgers = {0, 1}
  /\ LET key == Hdr(last.request).public_key_id
         tracker == per_key_ledgers[key].budget_tracker
     IN /\ tracker.budgets[Entry(last.request, last.index)] = 0
        /\ tracker.revoked # {}
        /\ Hdr(last.request).blob_id \notin tracker.revoked
        /\ \E k \in {0, 1} \ {key} :
             /\ Entry(last.request, last.index)
                  \in DOMAIN per_key_ledgers[k].budget_tracker.budgets
             /\ per_key_ledgers[k].budget_tracker.revoked = {}

====
